---------------------------- MODULE Spec2Model ----------------------------
(***************************************************************************)
(* Model of the audio turn-segmentation pipeline of the voice assistant:   *)
(*   - VoiceActivityDetector (src/src/audio/vad.py): the frame classifier  *)
(*     wrapper and the hysteresis gate;                                    *)
(*   - VoiceAssistant._vad_stream (src/src/assistant/voice_assistant.py):  *)
(*     the streaming capture session (producer callback, consumer loop,    *)
(*     energy rejection, post-hoc policy);                                 *)
(*   - VoiceAssistant.process_turn: the caller that hands an accepted      *)
(*     segment to transcription.                                           *)
(*                                                                         *)
(* Amplitudes are integers in units of 1/1000 of full scale, mean squares  *)
(* in units of 1/1000000, durations in frames, samples or milliseconds.    *)
(***************************************************************************)
EXTENDS Integers, Sequences, FiniteSets, TLC

VARIABLES
    vad,              \* the VoiceActivityDetector object (its fields)
    ret,              \* what the last detector call returned / raised, and for which frame
    lastOp,           \* the detector method called last
    pre,              \* history: the gate state that call started from
    speechRun,        \* history: consecutive speech-classified frames just processed
    silenceRun,       \* history: consecutive silence-classified frames just processed
    startsInPeriod,   \* history: speech_started events since the last speech_ended / reset
    args,             \* history: the arguments the detector was constructed with
    events,           \* history: the last two events returned since the last reset
    \* process_turn / _vad_stream
    mode,             \* the recording mode main_loop passes to process_turn
    pc,               \* where the turn is
    speech_started,   \* _vad_stream local
    speech_ended,     \* _vad_stream local
    recorded_chunks,  \* _vad_stream local, run-length encoded
    chunks_recorded,  \* _vad_stream local
    audio_queue,      \* blocks the callback has put and the loop has not got yet,
                      \* each with the tag the microphone gave it
    streams_open,     \* number of open sd.InputStream objects
    audio,            \* what _record_audio returned to process_turn
    printed,          \* the lines the capture session printed, oldest first
    stt_calls,        \* the waveforms given to stt.transcribe in this turn
    turn_return,      \* what process_turn returned
    \* the microphone
    runFrame,         \* the frame the microphone is delivering
    runLeft,          \* how many more times it delivers that frame
    runsUsed,         \* how many runs of equal frames it has started in this turn
    \* history of the capture session
    ev,               \* what the last step of the consumer loop did
    idleFrames,       \* frames got in a row that left speech_started false
    heard,            \* the frames got since the gate last went ACTIVE, that one included
    shape,            \* 0: only silence got so far, 1: in the first run of speech,
                      \* 2: in the silence after it, 3: later
    speechHeard,      \* the number of frames of the first run of speech
    startsInSession,  \* speech_started events of this capture session
    putTag,           \* the tag of the next block the microphone delivers
    gotTag,           \* the tag of the block produced next after the last one got
    inOrder,          \* every block got so far carried the tag gotTag
    stream_closes,    \* how many times an input stream was closed in this turn
    sessionFrames,    \* frames appended to recorded_chunks since the session began
    \* process_audio_buffer
    buf,              \* the buffer given to the last process_audio_buffer call
                      \* and what the call returned
    \* SessionMemory
    memory,           \* the SessionMemory object (messages, max_messages)
    memPre,           \* history: its messages before the last call
    memAdded,         \* history: every message added since the last clear
    memOp,            \* the SessionMemory method called last
    \* the speak_* commands; speeds are in hundredths
    tts_speed,                 \* VoiceAssistant.tts_speed
    CommandHandlers_tts_speed, \* the class attribute CommandHandlers.tts_speed
    speedPre,                  \* history: VoiceAssistant.tts_speed before the last command
    command,                   \* the command handled last
    handled,                   \* history: how many commands were handled
    \* execute_tool_call_loop
    messages,         \* the list the caller passed, which the loop appends to
    max_iterations,   \* the argument max_iterations
    iteration,        \* the local iteration, the number of LLM calls made
    response,         \* what the last self.chat call returned or raised
    tool_pc,          \* "while": in the loop, "done": the function has ended
    loop_result       \* what the function returned or raised

gvars == <<vad, ret, lastOp, pre, speechRun, silenceRun, startsInPeriod, args, events>>
svars == <<mode, pc, speech_started, speech_ended, recorded_chunks, chunks_recorded,
           audio_queue, streams_open, audio, printed, stt_calls, turn_return,
           runFrame, runLeft, runsUsed, ev, idleFrames,
           heard, shape, speechHeard, startsInSession,
           putTag, gotTag, inOrder, stream_closes, sessionFrames>>
tvars == <<putTag, gotTag, inOrder>>
bvars == <<buf>>
mvars == <<memory, memPre, memAdded, memOp>>
cvars == <<tts_speed, CommandHandlers_tts_speed, speedPre, command, handled>>
lvars == <<messages, max_iterations, iteration, response, tool_pc, loop_result>>
ovars == <<bvars, mvars, cvars, lvars>>
vars == <<gvars, svars, ovars>>

------------------------------------------------------------------------------
(* Bounds of the model *)

MaxTrigger == 3
RunCap == 80
MaxRuns == 3
MaxQueue == 2
IdleCap == 334
MaxBuffer == 2
MaxMessages == 3
MaxAdds == 5
MaxCommands == 6
MaxIterations == 2
MaxCalls == 2

Min(a, b) == IF a < b THEN a ELSE b

------------------------------------------------------------------------------
(* Frames.  A frame is what the code can observe of a block of samples:    *)
(* its length, what the WebRTC engine answers for it, its largest sample,  *)
(* its largest absolute sample and its mean square.                        *)

Frame(len, engine, max, absmax, ms) ==
    [len |-> len, engine |-> engine, max |-> max, absmax |-> absmax, ms |-> ms]

------------------------------------------------------------------------------
(* VoiceActivityDetector *)

SampleRates == {8000, 16000, 32000, 48000}
FrameDurations == {10, 20, 30}
AggressivenessLevels == {0, 1, 2, 3}

\* round() taking an exact half up
PyRound_half_up(n, d) == (2 * n + d) \div (2 * d)

\* Python 3 round() on the quotient n / d of two non-negative integers:
\* round half to even.
PyRound(n, d) ==
    LET q == n \div d
        r == n % d
    IN  IF 2 * r < d THEN q
        ELSE IF 2 * r > d THEN q + 1
        ELSE IF q % 2 = 0 THEN q ELSE q + 1

\* __init__ without the check of aggressiveness
VoiceActivityDetector_any_aggressiveness(sample_rate, aggressiveness, frame_duration_ms, padding_duration_ms, speech_trigger_frames) ==
    IF sample_rate \notin SampleRates THEN [raised |-> "ValueError"]
    ELSE IF frame_duration_ms \notin FrameDurations THEN [raised |-> "ValueError"]
    ELSE [raised |-> "none",
          sample_rate |-> sample_rate,
          aggressiveness |-> aggressiveness,
          frame_duration_ms |-> frame_duration_ms,
          padding_duration_ms |-> padding_duration_ms,
          speech_trigger_frames |-> speech_trigger_frames,
          frame_size |-> (sample_rate * frame_duration_ms) \div 1000,
          padding_frames |-> PyRound(padding_duration_ms, frame_duration_ms),
          is_speech_active |-> FALSE,
          speech_frame_count |-> 0,
          silence_frame_count |-> 0,
          ring_buffer |-> << >>]

\* __init__: the object left by a successful construction, or the ValueError.
VoiceActivityDetector(sample_rate, aggressiveness, frame_duration_ms, padding_duration_ms, speech_trigger_frames) ==
    IF sample_rate \notin SampleRates THEN [raised |-> "ValueError"]
    ELSE IF frame_duration_ms \notin FrameDurations THEN [raised |-> "ValueError"]
    ELSE IF aggressiveness \notin AggressivenessLevels THEN [raised |-> "ValueError"]
    ELSE [raised |-> "none",
          sample_rate |-> sample_rate,
          aggressiveness |-> aggressiveness,
          frame_duration_ms |-> frame_duration_ms,
          padding_duration_ms |-> padding_duration_ms,
          speech_trigger_frames |-> speech_trigger_frames,
          frame_size |-> (sample_rate * frame_duration_ms) \div 1000,
          padding_frames |-> PyRound(padding_duration_ms, frame_duration_ms),
          is_speech_active |-> FALSE,
          speech_frame_count |-> 0,
          silence_frame_count |-> 0,
          ring_buffer |-> << >>]

\* is_speech taking a mis-sized frame for silence
is_speech_coerces(self, audio_frame) ==
    IF audio_frame.len # self.frame_size
    THEN [raised |-> "none", value |-> FALSE]
    ELSE IF audio_frame.engine = "error"
    THEN [raised |-> "none", value |-> FALSE]
    ELSE [raised |-> "none", value |-> (audio_frame.engine = "speech")]

\* is_speech letting the engine's exception through
is_speech_propagates(self, audio_frame) ==
    IF audio_frame.len # self.frame_size
    THEN [raised |-> "ValueError", value |-> FALSE]
    ELSE IF audio_frame.engine = "error"
    THEN [raised |-> "Exception", value |-> FALSE]
    ELSE [raised |-> "none", value |-> (audio_frame.engine = "speech")]

\* is_speech: ValueError on a mis-sized frame, False when the engine fails.
is_speech(self, audio_frame) ==
    IF audio_frame.len # self.frame_size
    THEN [raised |-> "ValueError", value |-> FALSE]
    ELSE IF audio_frame.engine = "error"
    THEN [raised |-> "none", value |-> FALSE]
    ELSE [raised |-> "none", value |-> (audio_frame.engine = "speech")]

\* idle_frame going ACTIVE one frame early
idle_frame_starts_early(self, speech_detected) ==
    IF speech_detected
    THEN LET n == self.speech_frame_count + 1
         IN  IF n >= self.speech_trigger_frames - 1
             THEN [self |-> [self EXCEPT !.is_speech_active = TRUE,
                                         !.speech_frame_count = 0,
                                         !.ring_buffer = << >>],
                   speech_started |-> TRUE, speech_ended |-> FALSE]
             ELSE [self |-> [self EXCEPT !.speech_frame_count = n],
                   speech_started |-> FALSE, speech_ended |-> FALSE]
    ELSE [self |-> [self EXCEPT !.speech_frame_count = 0],
          speech_started |-> FALSE, speech_ended |-> FALSE]

\* idle_frame with the reset of the count on a silence frame left out
idle_frame_keeps_count(self, speech_detected) ==
    IF speech_detected
    THEN IF self.speech_frame_count + 1 >= self.speech_trigger_frames
         THEN [self |-> [self EXCEPT !.is_speech_active = TRUE,
                                     !.speech_frame_count = 0,
                                     !.ring_buffer = << >>],
               speech_started |-> TRUE, speech_ended |-> FALSE]
         ELSE [self |-> [self EXCEPT !.speech_frame_count = @ + 1],
               speech_started |-> FALSE, speech_ended |-> FALSE]
    ELSE [self |-> self, speech_started |-> FALSE, speech_ended |-> FALSE]

\* idle_frame keeping the speech count when the period starts
idle_frame_start_keeps_count(self, speech_detected) ==
    IF speech_detected
    THEN IF self.speech_frame_count + 1 >= self.speech_trigger_frames
         THEN [self |-> [self EXCEPT !.is_speech_active = TRUE,
                                     !.ring_buffer = << >>],
               speech_started |-> TRUE, speech_ended |-> FALSE]
         ELSE [self |-> [self EXCEPT !.speech_frame_count = @ + 1],
               speech_started |-> FALSE, speech_ended |-> FALSE]
    ELSE [self |-> [self EXCEPT !.speech_frame_count = 0],
          speech_started |-> FALSE, speech_ended |-> FALSE]

\* process_frame, branch "not self.is_speech_active"
idle_frame(self, speech_detected) ==
    IF speech_detected
    THEN IF self.speech_frame_count + 1 >= self.speech_trigger_frames
         THEN [self |-> [self EXCEPT !.is_speech_active = TRUE,
                                     !.speech_frame_count = 0,
                                     !.ring_buffer = << >>],
               speech_started |-> TRUE, speech_ended |-> FALSE]
         ELSE [self |-> [self EXCEPT !.speech_frame_count = @ + 1],
               speech_started |-> FALSE, speech_ended |-> FALSE]
    ELSE [self |-> [self EXCEPT !.speech_frame_count = 0],
          speech_started |-> FALSE, speech_ended |-> FALSE]

\* active_frame leaving the silence count as it is when the period ends
active_frame_leaves_silence(self, speech_detected) ==
    IF ~speech_detected
    THEN IF self.silence_frame_count + 1 >= self.padding_frames
         THEN [self |-> [self EXCEPT !.is_speech_active = FALSE],
               speech_started |-> FALSE, speech_ended |-> TRUE]
         ELSE [self |-> [self EXCEPT !.silence_frame_count = @ + 1],
               speech_started |-> FALSE, speech_ended |-> FALSE]
    ELSE [self |-> [self EXCEPT !.silence_frame_count = 0],
          speech_started |-> FALSE, speech_ended |-> FALSE]

\* active_frame with the reset of the count on a speech frame left out
active_frame_keeps_count(self, speech_detected) ==
    IF ~speech_detected
    THEN IF self.silence_frame_count + 1 >= self.padding_frames
         THEN [self |-> [self EXCEPT !.is_speech_active = FALSE,
                                     !.silence_frame_count = 0],
               speech_started |-> FALSE, speech_ended |-> TRUE]
         ELSE [self |-> [self EXCEPT !.silence_frame_count = @ + 1],
               speech_started |-> FALSE, speech_ended |-> FALSE]
    ELSE [self |-> self, speech_started |-> FALSE, speech_ended |-> FALSE]

\* active_frame leaving is_speech_active set when the period ends
active_frame_stays_active(self, speech_detected) ==
    IF ~speech_detected
    THEN IF self.silence_frame_count + 1 >= self.padding_frames
         THEN [self |-> [self EXCEPT !.silence_frame_count = 0],
               speech_started |-> FALSE, speech_ended |-> TRUE]
         ELSE [self |-> [self EXCEPT !.silence_frame_count = @ + 1],
               speech_started |-> FALSE, speech_ended |-> FALSE]
    ELSE [self |-> [self EXCEPT !.silence_frame_count = 0],
          speech_started |-> FALSE, speech_ended |-> FALSE]

\* active_frame comparing the silence count with speech_trigger_frames
active_frame_ends_on_trigger(self, speech_detected) ==
    IF ~speech_detected
    THEN IF self.silence_frame_count + 1 >= self.speech_trigger_frames
         THEN [self |-> [self EXCEPT !.is_speech_active = FALSE,
                                     !.silence_frame_count = 0],
               speech_started |-> FALSE, speech_ended |-> TRUE]
         ELSE [self |-> [self EXCEPT !.silence_frame_count = @ + 1],
               speech_started |-> FALSE, speech_ended |-> FALSE]
    ELSE [self |-> [self EXCEPT !.silence_frame_count = 0],
          speech_started |-> FALSE, speech_ended |-> FALSE]

\* process_frame, branch "self.is_speech_active"
active_frame(self, speech_detected) ==
    IF ~speech_detected
    THEN IF self.silence_frame_count + 1 >= self.padding_frames
         THEN [self |-> [self EXCEPT !.is_speech_active = FALSE,
                                     !.silence_frame_count = 0],
               speech_started |-> FALSE, speech_ended |-> TRUE]
         ELSE [self |-> [self EXCEPT !.silence_frame_count = @ + 1],
               speech_started |-> FALSE, speech_ended |-> FALSE]
    ELSE [self |-> [self EXCEPT !.silence_frame_count = 0],
          speech_started |-> FALSE, speech_ended |-> FALSE]

\* process_frame: the new object and the returned pair, or the ValueError
\* of is_speech with the object untouched.
process_frame(self, audio_frame) ==
    LET d == is_speech(self, audio_frame)
    IN  IF d.raised # "none"
        THEN [self |-> self, speech_started |-> FALSE, speech_ended |-> FALSE,
              raised |-> d.raised]
        ELSE LET r == IF ~self.is_speech_active
                      THEN idle_frame(self, d.value)
                      ELSE active_frame(self, d.value)
             IN  [self |-> r.self, speech_started |-> r.speech_started,
                  speech_ended |-> r.speech_ended, raised |-> "none"]

\* reset with the silence counter left as it is
reset_keeps_silence(self) ==
    [self EXCEPT !.is_speech_active = FALSE,
                 !.speech_frame_count = 0,
                 !.ring_buffer = << >>]

\* reset with is_speech_active left as it is
reset_keeps_active(self) ==
    [self EXCEPT !.speech_frame_count = 0,
                 !.silence_frame_count = 0,
                 !.ring_buffer = << >>]

\* reset
reset(self) ==
    [self EXCEPT !.is_speech_active = FALSE,
                 !.speech_frame_count = 0,
                 !.silence_frame_count = 0,
                 !.ring_buffer = << >>]

\* A buffer is what process_audio_buffer can observe of it: its length in
\* samples and, for each slice of frame_size samples from its start (the
\* shorter last one included), what the engine answers for that slice.

\* audio[start:end], a slice that starts inside the buffer
Slice(buffer, start, end, frame_size) ==
    Frame(Min(end, buffer.len) - start, buffer.engine[(start \div frame_size) + 1], 0, 0, 0)

\* the for loop of process_audio_buffer, lines 210-224, from frame i on
RECURSIVE buffer_frames(_, _, _, _)
buffer_frames(acc, buffer, i, num_frames) ==
    IF i >= num_frames \/ acc.raised # "none" THEN acc
    ELSE LET start == i * acc.self.frame_size
             end == start + acc.self.frame_size
             frame == Slice(buffer, start, end, acc.self.frame_size)
             r == process_frame(acc.self, frame)
             d == is_speech(r.self, frame)
         IN  IF r.raised # "none"
             THEN [acc EXCEPT !.raised = r.raised]
             ELSE buffer_frames(
                      [self |-> r.self,
                       speech_started |-> (acc.speech_started \/ r.speech_started),
                       speech_ended |-> (acc.speech_ended \/ r.speech_ended),
                       speech_frame_count |->
                           IF d.raised = "none" /\ d.value
                           THEN acc.speech_frame_count + 1
                           ELSE acc.speech_frame_count,
                       raised |-> d.raised],
                      buffer, i + 1, num_frames)

\* process_audio_buffer taking the trailing partial frame as a frame
process_audio_buffer_keeps_partial(self, buffer) ==
    buffer_frames([self |-> self, speech_started |-> FALSE, speech_ended |-> FALSE,
                   speech_frame_count |-> 0, raised |-> "none"],
                  buffer, 0, (buffer.len + self.frame_size - 1) \div self.frame_size)

\* process_audio_buffer: the new object and the returned triple
process_audio_buffer(self, buffer) ==
    buffer_frames([self |-> self, speech_started |-> FALSE, speech_ended |-> FALSE,
                   speech_frame_count |-> 0, raised |-> "none"],
                  buffer, 0, buffer.len \div self.frame_size)

------------------------------------------------------------------------------
(* Waveforms.  A list of equal blocks is kept run-length encoded: the      *)
(* entry [frame |-> f, n |-> k] stands for k consecutive copies of f.      *)

RECURSIVE RleLen(_)
RleLen(c) == IF c = << >> THEN 0 ELSE Head(c).n + RleLen(Tail(c))

\* list.append(chunk)
RleAppend(c, f) ==
    IF c # << >> /\ c[Len(c)].frame = f
    THEN [c EXCEPT ![Len(c)].n = @ + 1]
    ELSE Append(c, [frame |-> f, n |-> 1])

\* the first k blocks of the list, c[:k] for 0 <= k
RECURSIVE RleTake(_, _)
RleTake(c, k) ==
    IF k <= 0 \/ c = << >> THEN << >>
    ELSE IF Head(c).n <= k
         THEN <<Head(c)>> \o RleTake(Tail(c), k - Head(c).n)
         ELSE <<[frame |-> Head(c).frame, n |-> k]>>

\* c[:-k] for k > 0
RleDropLast(c, k) == RleTake(c, RleLen(c) - k)

\* len(np.concatenate(c))
RECURSIVE RleSamples(_)
RleSamples(c) ==
    IF c = << >> THEN 0 ELSE Head(c).n * Head(c).frame.len + RleSamples(Tail(c))

\* the sum of the squares of the samples, divided by the block length
RECURSIVE RleSumMs(_)
RleSumMs(c) ==
    IF c = << >> THEN 0 ELSE Head(c).n * Head(c).frame.ms + RleSumMs(Tail(c))

\* np.concatenate(c).max() of a non-empty list
RECURSIVE RleMax(_)
RleMax(c) ==
    IF Len(c) = 1 THEN Head(c).frame.max
    ELSE LET m == RleMax(Tail(c))
         IN  IF Head(c).frame.max > m THEN Head(c).frame.max ELSE m

\* the largest absolute sample of a non-empty list
RECURSIVE RleAbsMax(_)
RleAbsMax(c) ==
    IF Len(c) = 1 THEN Head(c).frame.absmax
    ELSE LET m == RleAbsMax(Tail(c))
         IN  IF Head(c).frame.absmax > m THEN Head(c).frame.absmax ELSE m

\* Optional[np.ndarray]
None == [none |-> TRUE, chunks |-> << >>]
Some(c) == [none |-> FALSE, chunks |-> c]

------------------------------------------------------------------------------
(* The detector on its own: any legal configuration, any sequence of       *)
(* process_frame and reset calls.                                          *)

PaddingDurations == {0, 30, 50, 90, 750}
GateSampleRates == {8000, 16000}
GateAggressiveness == {3}

GateFrames(self) ==
    { Frame(l, e, 0, 0, 0) : l \in {self.frame_size, self.frame_size - 1},
                             e \in {"speech", "silence", "error"} }

NoReturn ==
    [speech_started |-> FALSE, speech_ended |-> FALSE, raised |-> "none",
     value |-> FALSE, len |-> 0, engine |-> "none"]

\* what process_frame(f) returned or raised, with what is_speech answered
\* inside it and the length and the engine's answer for f
Returns(r, d, f) ==
    [speech_started |-> r.speech_started, speech_ended |-> r.speech_ended,
     raised |-> r.raised, value |-> d.value, len |-> f.len, engine |-> f.engine]

GateState(self) ==
    [is_speech_active |-> self.is_speech_active,
     speech_frame_count |-> self.speech_frame_count,
     silence_frame_count |-> self.silence_frame_count,
     ring_buffer |-> self.ring_buffer]

\* An event of the capture session: what happened, how many blocks
\* recorded_chunks and heard held then, and the length and the sum of the
\* mean squares of recorded_chunks without its last padding_frames blocks.
Event(kind, seglen, heardlen, winlen, winsum) ==
    [kind |-> kind, seglen |-> seglen, heardlen |-> heardlen,
     winlen |-> winlen, winsum |-> winsum]

NoEvent == Event("none", 0, 0, 0, 0)

\* the variables of the capture session while no session runs
SessionIdle ==
    /\ speech_started = FALSE
    /\ speech_ended = FALSE
    /\ recorded_chunks = << >>
    /\ chunks_recorded = 0
    /\ audio_queue = << >>
    /\ streams_open = 0
    /\ audio = None
    /\ printed = << >>
    /\ stt_calls = << >>
    /\ turn_return = "running"
    /\ runFrame = Frame(0, "silence", 0, 0, 0)
    /\ runLeft = 0
    /\ runsUsed = 0
    /\ ev = NoEvent
    /\ idleFrames = 0
    /\ heard = << >>
    /\ shape = 0
    /\ speechHeard = 0
    /\ startsInSession = 0
    /\ putTag = 0
    /\ gotTag = 0
    /\ inOrder = TRUE
    /\ stream_closes = 0
    /\ sessionFrames = 0

\* before any process_audio_buffer call
NoBuffer ==
    [audio |-> [len |-> 0, engine |-> << >>],
     speech_started |-> FALSE, speech_ended |-> FALSE, speech_frame_count |-> 0,
     raised |-> "not called"]

\* SessionMemory(max_messages): no messages yet; None is written 0
SessionMemory(max_messages) ==
    [messages |-> << >>, max_messages |-> max_messages]

\* the variables of process_audio_buffer while it is not used
BufferIdle ==
    /\ buf = NoBuffer

\* the variables of the session memory while it is not used:
\* SessionMemory(), voice_assistant.py line 67
MemoryIdle ==
    /\ memory = SessionMemory(0)
    /\ memPre = << >>
    /\ memAdded = << >>
    /\ memOp = "init"

\* the speeds before any command: voice_assistant.py line 59 and
\* command_router.py line 131
SpeedIdle ==
    /\ tts_speed = 100
    /\ CommandHandlers_tts_speed = 100
    /\ speedPre = 100
    /\ command = "none"
    /\ handled = 0

\* before any self.chat call, and before execute_tool_call_loop ends
NoResponse == [raised |-> "not called"]
NoResult == [raised |-> "running"]

\* the variables of the tool call loop while it is not used
ToolLoopIdle ==
    /\ messages = << >>
    /\ max_iterations = 0
    /\ iteration = 0
    /\ response = NoResponse
    /\ tool_pc = "idle"
    /\ loop_result = NoResult

\* the variables of the other components while they are not used
OtherIdle ==
    /\ BufferIdle
    /\ MemoryIdle
    /\ SpeedIdle
    /\ ToolLoopIdle

\* the arguments of one constructor call
Args(sample_rate, aggressiveness, frame_duration_ms, padding_duration_ms, speech_trigger_frames) ==
    [sample_rate |-> sample_rate, aggressiveness |-> aggressiveness,
     frame_duration_ms |-> frame_duration_ms,
     padding_duration_ms |-> padding_duration_ms,
     speech_trigger_frames |-> speech_trigger_frames]

\* VoiceActivityDetector(**a)
Construct(a) ==
    VoiceActivityDetector(a.sample_rate, a.aggressiveness, a.frame_duration_ms,
                          a.padding_duration_ms, a.speech_trigger_frames)

GateInit ==
    /\ mode = "none"
    /\ pc = "gate"
    /\ SessionIdle
    /\ OtherIdle
    /\ \E sr \in GateSampleRates, ag \in GateAggressiveness,
          fd \in FrameDurations, pd \in PaddingDurations,
          tf \in 0..MaxTrigger :
          args = Args(sr, ag, fd, pd, tf)
    /\ vad = Construct(args)
    /\ ret = NoReturn
    /\ lastOp = "init"
    /\ pre = GateState(vad)
    /\ speechRun = 0
    /\ silenceRun = 0
    /\ startsInPeriod = 0
    /\ events = << >>

\* the events returned since the last reset, the last two of them kept
Noted(evs, r) ==
    LET all == evs \o (IF r.speech_started THEN <<"started">> ELSE << >>)
                   \o (IF r.speech_ended THEN <<"ended">> ELSE << >>)
    IN  IF Len(all) <= 2 THEN all ELSE SubSeq(all, Len(all) - 1, Len(all))

\* the gate and its history across one process_frame call
CallProcessFrame(f) ==
        LET d == is_speech(vad, f)
            r == process_frame(vad, f)
        IN  /\ vad' = r.self
            /\ ret' = Returns(r, d, f)
            /\ lastOp' = "process_frame"
            /\ pre' = GateState(vad)
            /\ speechRun' = IF d.raised # "none" THEN speechRun
                            ELSE IF d.value THEN Min(speechRun + 1, RunCap) ELSE 0
            /\ silenceRun' = IF d.raised # "none" THEN silenceRun
                             ELSE IF d.value THEN 0 ELSE Min(silenceRun + 1, RunCap)
            /\ startsInPeriod' = IF r.speech_ended THEN 0
                                 ELSE IF r.speech_started
                                      THEN Min(startsInPeriod + 1, 2)
                                      ELSE startsInPeriod
            /\ events' = Noted(events, r)
            /\ UNCHANGED args

GateProcessFrame ==
    /\ \E f \in GateFrames(vad) : CallProcessFrame(f)
    /\ UNCHANGED <<svars, ovars>>

\* a direct call of is_speech: an answer or a ValueError, the gate untouched
GateIsSpeech ==
    /\ \E f \in GateFrames(vad) :
          LET d == is_speech(vad, f)
          IN  ret' = [speech_started |-> FALSE, speech_ended |-> FALSE,
                      raised |-> d.raised, value |-> d.value,
                      len |-> f.len, engine |-> f.engine]
    /\ lastOp' = "is_speech"
    /\ pre' = GateState(vad)
    /\ UNCHANGED <<vad, speechRun, silenceRun, startsInPeriod, args, events, svars, ovars>>

\* the gate and its history across one reset call
CallReset(self) ==
    /\ vad' = reset(self)
    /\ ret' = NoReturn
    /\ lastOp' = "reset"
    /\ pre' = GateState(self)
    /\ speechRun' = 0
    /\ silenceRun' = 0
    /\ startsInPeriod' = 0
    /\ events' = << >>
    /\ UNCHANGED args

GateReset ==
    /\ CallReset(vad)
    /\ UNCHANGED <<svars, ovars>>

GateNext == GateProcessFrame \/ GateIsSpeech \/ GateReset

GateSpec == GateInit /\ [][GateNext]_vars

------------------------------------------------------------------------------
(* The constructor on its own: any arguments, legal or not.                *)

CtorSampleRates == {0, 8000, 16000, 22050, 32000, 44100, 48000}
CtorAggressiveness == {-1, 0, 1, 2, 3, 4}
CtorFrameDurations == {0, 10, 15, 20, 30, 40}
CtorPaddingDurations == {0, 5, 10, 15, 30, 45, 50, 75, 750}
CtorTriggerFrames == -1 .. MaxTrigger

\* before the constructor call: no object
Unconstructed == [raised |-> "not called"]

CtorInit ==
    /\ mode = "none"
    /\ pc = "ctor"
    /\ SessionIdle
    /\ OtherIdle
    /\ args \in { Args(sr, ag, fd, pd, tf) :
                    sr \in CtorSampleRates, ag \in CtorAggressiveness,
                    fd \in CtorFrameDurations, pd \in CtorPaddingDurations,
                    tf \in CtorTriggerFrames }
    /\ vad = Unconstructed
    /\ ret = NoReturn
    /\ lastOp = "none"
    /\ pre = Unconstructed
    /\ speechRun = 0
    /\ silenceRun = 0
    /\ startsInPeriod = 0
    /\ events = << >>

\* the call VoiceActivityDetector(...) with the arguments drawn
CtorCall ==
    /\ lastOp = "none"
    /\ vad' = Construct(args)
    /\ lastOp' = "init"
    /\ UNCHANGED <<ret, pre, speechRun, silenceRun, startsInPeriod, args, events, svars, ovars>>

CtorNext == CtorCall

CtorSpec == CtorInit /\ [][CtorNext]_vars

------------------------------------------------------------------------------
(* The detector fed with buffers: any sequence of process_audio_buffer and *)
(* reset calls.                                                            *)

BufSampleRates == {16000}
BufFrameDurations == {10, 30}
BufPaddingDurations == {0, 30, 60}
EngineAnswers == {"speech", "silence", "error"}

\* buffers of up to MaxBuffer full frames, with or without a partial one,
\* for which the engine has no answer
Buffers(self) ==
    UNION { { [len |-> k * self.frame_size + rest,
               engine |-> IF rest > 0 THEN Append(e, "error") ELSE e] :
                e \in [1 .. k -> EngineAnswers] } :
            k \in 0 .. MaxBuffer, rest \in {0, self.frame_size - 1} }

BufInit ==
    /\ mode = "none"
    /\ pc = "buffer"
    /\ SessionIdle
    /\ OtherIdle
    /\ \E sr \in BufSampleRates, ag \in GateAggressiveness,
          fd \in BufFrameDurations, pd \in BufPaddingDurations,
          tf \in 0..MaxTrigger :
          args = Args(sr, ag, fd, pd, tf)
    /\ vad = Construct(args)
    /\ ret = NoReturn
    /\ lastOp = "init"
    /\ pre = GateState(vad)
    /\ speechRun = 0
    /\ silenceRun = 0
    /\ startsInPeriod = 0
    /\ events = << >>

\* one process_audio_buffer call; the run counters and the events are the
\* history of GateSpec alone
BufProcessBuffer ==
    /\ \E a \in Buffers(vad) :
          LET r == process_audio_buffer(vad, a)
          IN  /\ vad' = r.self
              /\ buf' = [audio |-> a,
                         speech_started |-> r.speech_started,
                         speech_ended |-> r.speech_ended,
                         speech_frame_count |-> r.speech_frame_count,
                         raised |-> r.raised]
    /\ ret' = NoReturn
    /\ lastOp' = "process_audio_buffer"
    /\ pre' = GateState(vad)
    /\ UNCHANGED <<speechRun, silenceRun, startsInPeriod, args, events, svars, mvars, cvars, lvars>>

\* one reset call between buffers
BufReset ==
    /\ vad' = reset(vad)
    /\ buf' = NoBuffer
    /\ ret' = NoReturn
    /\ lastOp' = "reset"
    /\ pre' = GateState(vad)
    /\ UNCHANGED <<speechRun, silenceRun, startsInPeriod, args, events, svars, mvars, cvars, lvars>>

BufNext == BufProcessBuffer \/ BufReset

BufSpec == BufInit /\ [][BufNext]_vars

------------------------------------------------------------------------------
(* VoiceAssistant: one conversation turn after the other, each recording   *)
(* with _record_audio(mode) and handing the result to stt.transcribe.      *)

AUDIO_SAMPLE_RATE == 16000
VAD_AGGRESSIVENESS == 3
default_frame_duration_ms == 30
default_padding_duration_ms == 750
default_speech_trigger_frames == 3

\* _vad_stream's timing locals, in milliseconds and seconds
frame_duration == 30
max_recording_duration == 30
blocksize == (AUDIO_SAMPLE_RATE * frame_duration) \div 1000
max_chunks == (max_recording_duration * 1000) \div frame_duration

\* recorded_chunks[:-25]
energy_tail == 25
\* np.mean(arr**2) < 0.001, in millionths
low_energy_threshold == 1000
\* len(audio) < sample_rate * 0.3, in milliseconds
min_segment_ms == 300
\* audio.max() < 0.08, in thousandths
min_peak == 80
\* record_fixed_duration(5.0)
fixed_seconds == 5

\* What the microphone delivers: blocks of blocksize samples.
Silence == Frame(blocksize, "silence", 0, 0, 0)
Loud    == Frame(blocksize, "speech", 500, 500, 250000)
Mid     == Frame(blocksize, "speech", 50, 50, 2500)
Quiet   == Frame(blocksize, "speech", 20, 20, 400)
NegLoud == Frame(blocksize, "speech", -500, 500, 250000)
MicFrames == {Silence, Loud, Mid, Quiet, NegLoud}
\* The microphone alternates runs of silence blocks and of speech blocks.
SilenceLens == {24, 25, 400}
SpeechLens == {2, 3, 977, 990, 1002}
RunLens(f) ==
    IF f.engine # "speech" THEN SilenceLens
    ELSE IF f = Loud THEN SpeechLens
    ELSE IF f = Mid THEN {3, 977}
    ELSE {3}

\* Blocks are tagged modulo TagMod, more than the queue ever holds.
TagMod == MaxQueue + 2

\* a put that goes to the front of the queue
queue_put_front(q, x) == <<x>> \o q

\* queue.Queue.put and what queue.Queue.get returns: first in, first out
queue_put(q, x) == Append(q, x)
queue_get(q) == Head(q)

\* leaving the with block of sd.InputStream closes the stream
close_stream(n) == n - 1

\* One press-to-speak recording: a single block of 5 s.
PressBuffers ==
    { Frame(fixed_seconds * AUDIO_SAMPLE_RATE, "speech", 500, 500, 250000),
      Frame(fixed_seconds * AUDIO_SAMPLE_RATE, "silence", 0, 0, 0) }

\* low_energy taking the mean over the padding blocks as well
low_energy_whole(chunks) ==
    IF RleLen(chunks) = 0 THEN FALSE
    ELSE RleSumMs(chunks) < low_energy_threshold * RleLen(chunks)

\* np.mean(np.array(recorded_chunks[:-25]).flatten() ** 2) < 0.001;
\* the mean of an empty array is nan, and nan < 0.001 is False
low_energy(chunks) ==
    LET arr == RleDropLast(chunks, energy_tail)
    IN  IF RleLen(arr) = 0 THEN FALSE
        ELSE RleSumMs(arr) < low_energy_threshold * RleLen(arr)

\* post_hoc warning only beyond max_chunks
post_hoc_warns_late(started, chunks, n) ==
    IF ~started
    THEN [audio |-> None, printed |-> <<"no_speech">>]
    ELSE LET warn == IF n > max_chunks THEN <<"max_duration">> ELSE << >>
         IN  IF chunks = << >>
             THEN [audio |-> None, printed |-> warn \o <<"no_audio">>]
             ELSE IF RleSamples(chunks) * 1000 < AUDIO_SAMPLE_RATE * min_segment_ms
             THEN [audio |-> None, printed |-> warn \o <<"too_short">>]
             ELSE IF RleMax(chunks) < min_peak
             THEN [audio |-> None, printed |-> warn]
             ELSE [audio |-> Some(chunks), printed |-> warn \o <<"recorded">>]

\* lines 323-345: the value _vad_stream returns after the loop and what it prints
post_hoc(started, chunks, n) ==
    IF ~started
    THEN [audio |-> None, printed |-> <<"no_speech">>]
    ELSE LET warn == IF n >= max_chunks THEN <<"max_duration">> ELSE << >>
         IN  IF chunks = << >>
             THEN [audio |-> None, printed |-> warn \o <<"no_audio">>]
             ELSE IF RleSamples(chunks) * 1000 < AUDIO_SAMPLE_RATE * min_segment_ms
             THEN [audio |-> None, printed |-> warn \o <<"too_short">>]
             ELSE IF RleMax(chunks) < min_peak
             THEN [audio |-> None, printed |-> warn]
             ELSE [audio |-> Some(chunks), printed |-> warn \o <<"recorded">>]

Init ==
    /\ args = Args(AUDIO_SAMPLE_RATE, VAD_AGGRESSIVENESS,
                   default_frame_duration_ms,
                   default_padding_duration_ms,
                   default_speech_trigger_frames)
    /\ vad = Construct(args)
    /\ ret = NoReturn
    /\ lastOp = "init"
    /\ pre = GateState(vad)
    /\ speechRun = 0
    /\ silenceRun = 0
    /\ startsInPeriod = 0
    /\ events = << >>
    /\ mode \in {"press", "vad"}
    /\ pc = "turn"
    /\ SessionIdle
    /\ OtherIdle

\* self.vad.process_frame(chunk) and self.vad.reset() as the capture session
\* calls them; the run counters are the history of GateSpec alone
VadProcessFrame(f) ==
    LET r == process_frame(vad, f)
    IN  /\ vad' = r.self
        /\ ret' = Returns(r, is_speech(vad, f), f)
        /\ lastOp' = "process_frame"
        /\ pre' = GateState(vad)
        /\ UNCHANGED <<speechRun, silenceRun, startsInPeriod, args, events>>

VadReset(self) ==
    /\ vad' = reset(self)
    /\ ret' = NoReturn
    /\ lastOp' = "reset"
    /\ pre' = GateState(self)
    /\ UNCHANGED <<speechRun, silenceRun, startsInPeriod, args, events>>

\* the locals of _vad_stream and the microphone once _vad_stream has returned
Returned ==
    /\ speech_started' = FALSE
    /\ speech_ended' = FALSE
    /\ recorded_chunks' = << >>
    /\ chunks_recorded' = 0
    /\ audio_queue' = << >>
    /\ runFrame' = Frame(0, "silence", 0, 0, 0)
    /\ runLeft' = 0
    /\ runsUsed' = 0
    /\ idleFrames' = 0
    /\ putTag' = 0
    /\ gotTag' = 0
    /\ inOrder' = TRUE

\* _vad_stream, lines 237-276: reset, fresh locals, the input stream opens
StartVadStream ==
    /\ pc = "turn"
    /\ mode = "vad"
    /\ VadReset(vad)
    /\ speech_started' = FALSE
    /\ speech_ended' = FALSE
    /\ recorded_chunks' = << >>
    /\ chunks_recorded' = 0
    /\ audio_queue' = << >>
    /\ streams_open' = streams_open + 1
    /\ printed' = <<"listening">>
    /\ pc' = "loop"
    /\ runFrame' = Silence
    /\ runLeft' = 0
    /\ runsUsed' = 0
    /\ ev' = Event("opened", 0, 0, 0, 0)
    /\ idleFrames' = 0
    /\ putTag' = 0
    /\ gotTag' = 0
    /\ inOrder' = TRUE
    /\ sessionFrames' = 0
    /\ UNCHANGED <<mode, audio, stt_calls, turn_return,
                   heard, shape, speechHeard, startsInSession, stream_closes, ovars>>

\* _vad_stream when sd.InputStream raises: except Exception, line 350
OpenFails ==
    /\ pc = "turn"
    /\ mode = "vad"
    /\ VadReset(vad)
    /\ printed' = <<"listening", "error">>
    /\ audio' = None
    /\ pc' = "recorded"
    /\ ev' = Event("open_failed", 0, 0, 0, 0)
    /\ UNCHANGED <<mode, speech_started, speech_ended, recorded_chunks,
                   chunks_recorded, audio_queue, streams_open, stt_calls,
                   turn_return, runFrame, runLeft, runsUsed, idleFrames,
                   heard, shape, speechHeard, startsInSession,
                   tvars, stream_closes, sessionFrames, ovars>>

\* audio_callback, lines 259-265, run by the audio backend while the stream
\* is open: the next block of the microphone is put on the queue
audio_callback ==
    /\ streams_open > 0
    /\ Len(audio_queue) < MaxQueue
    /\ \/ /\ runLeft > 0
          /\ audio_queue' = queue_put(audio_queue, [frame |-> runFrame, tag |-> putTag])
          /\ runLeft' = runLeft - 1
          /\ UNCHANGED <<runFrame, runsUsed>>
       \/ /\ runLeft = 0
          /\ runsUsed < MaxRuns
          /\ \E f \in MicFrames : \E n \in RunLens(f) :
               /\ runsUsed > 0 => f.engine # runFrame.engine
               /\ runFrame' = f
               /\ runLeft' = n - 1
               /\ audio_queue' = queue_put(audio_queue, [frame |-> f, tag |-> putTag])
          /\ runsUsed' = runsUsed + 1
    /\ UNCHANGED <<gvars, mode, pc, speech_started, speech_ended, recorded_chunks,
                   chunks_recorded, streams_open, audio, printed, stt_calls,
                   turn_return, ev, idleFrames,
                   heard, shape, speechHeard, startsInSession,
                   gotTag, inOrder, stream_closes, sessionFrames, ovars>>
    /\ putTag' = (putTag + 1) % TagMod

\* one iteration of the while loop that gets a block, lines 278-317
LoopFrame ==
    /\ pc = "loop"
    /\ audio_queue # << >>
    /\ LET chunk == queue_get(audio_queue).frame
           tagged == queue_get(audio_queue).tag = gotTag
           r == process_frame(vad, chunk)
           started1 == speech_started \/ r.speech_started
           chunks1 == IF started1 THEN RleAppend(recorded_chunks, chunk)
                      ELSE recorded_chunks
           n1 == IF started1 THEN chunks_recorded + 1 ELSE chunks_recorded
           heard1 == IF r.speech_started \/ vad.is_speech_active
                     THEN RleAppend(heard, chunk) ELSE heard
           win == RleDropLast(chunks1, vad.padding_frames)
           At(kind) == Event(kind, RleLen(chunks1), RleLen(heard1),
                             RleLen(win), RleSumMs(win))
           speech == is_speech(vad, chunk).value
       IN  IF r.raised # "none"
           THEN \* except Exception, line 350
                /\ VadProcessFrame(chunk)
                /\ printed' = Append(printed, "error")
                /\ audio' = None
                /\ streams_open' = close_stream(streams_open)
                /\ stream_closes' = stream_closes + 1
                /\ pc' = "recorded"
                /\ ev' = Event("error", RleLen(recorded_chunks), 0, 0, 0)
                /\ Returned
                /\ heard' = << >>
                /\ UNCHANGED <<shape, speechHeard, startsInSession, sessionFrames>>
           ELSE IF r.speech_ended /\ low_energy(chunks1)
           THEN \* lines 308-314
                /\ VadReset(r.self)
                /\ speech_started' = FALSE
                /\ speech_ended' = FALSE
                /\ recorded_chunks' = << >>
                /\ chunks_recorded' = 0
                /\ audio_queue' = << >>
                /\ pc' = "loop"
                /\ ev' = At("rejected")
                /\ idleFrames' = 0
                /\ heard' = << >>
                /\ shape' = IF shape = 1 THEN 2 ELSE shape
                /\ inOrder' = (inOrder /\ tagged)
                /\ gotTag' = putTag
                /\ sessionFrames' = sessionFrames + 1
                /\ UNCHANGED <<speechHeard, startsInSession>>
                /\ UNCHANGED <<streams_open, audio, printed,
                               runFrame, runLeft, runsUsed, putTag, stream_closes>>
           ELSE /\ VadProcessFrame(chunk)
                /\ speech_started' = started1
                /\ speech_ended' = r.speech_ended
                /\ recorded_chunks' = chunks1
                /\ chunks_recorded' = n1
                /\ audio_queue' = Tail(audio_queue)
                /\ printed' = IF r.speech_ended
                              THEN Append(printed, "speech_ended") ELSE printed
                /\ pc' = IF r.speech_ended \/ n1 >= max_chunks
                         THEN "post" ELSE "loop"
                /\ ev' = IF r.speech_ended THEN At("ended")
                         ELSE IF r.speech_started
                         THEN Event("started", RleLen(chunks1), RleLen(heard1), 0, 0)
                         ELSE Event("frame", RleLen(chunks1), RleLen(heard1), 0, 0)
                /\ heard' = heard1
                /\ shape' = IF speech
                            THEN (IF shape <= 1 THEN 1 ELSE 3)
                            ELSE (IF shape = 1 THEN 2 ELSE shape)
                /\ speechHeard' = IF speech /\ shape <= 1
                                  THEN speechHeard + 1 ELSE speechHeard
                /\ startsInSession' = IF r.speech_started
                                      THEN Min(startsInSession + 1, MaxRuns)
                                      ELSE startsInSession
                /\ idleFrames' = IF started1 THEN 0
                                 ELSE Min(idleFrames + 1, IdleCap)
                /\ inOrder' = (inOrder /\ tagged)
                /\ gotTag' = (gotTag + 1) % TagMod
                /\ sessionFrames' = IF started1 THEN sessionFrames + 1
                                    ELSE sessionFrames
                /\ UNCHANGED <<streams_open, audio, runFrame, runLeft, runsUsed,
                               putTag, stream_closes>>
    /\ UNCHANGED <<mode, stt_calls, turn_return, ovars>>

\* one iteration of the while loop that finds the queue empty, lines 319-321
LoopEmpty ==
    /\ pc = "loop"
    /\ audio_queue = << >>
    /\ UNCHANGED vars

\* lines 323-345, and the stream closes as the with block is left
PostHoc ==
    /\ pc = "post"
    /\ LET r == post_hoc(speech_started, recorded_chunks, chunks_recorded)
       IN  /\ audio' = r.audio
           /\ printed' = printed \o r.printed
    /\ streams_open' = close_stream(streams_open)
    /\ stream_closes' = stream_closes + 1
    /\ pc' = "recorded"
    /\ ev' = Event(IF speech_ended THEN "returned_after_ended"
                    ELSE "returned_after_max",
                    RleLen(recorded_chunks), RleLen(heard), 0, 0)
    /\ Returned
    /\ UNCHANGED <<gvars, mode, stt_calls, turn_return,
                   heard, shape, speechHeard, startsInSession, sessionFrames, ovars>>

\* an interrupt handler that hands back what was recorded
interrupted_returns_partial(chunks) == IF chunks = << >> THEN None ELSE Some(chunks)

\* what lines 347-349 return when recorded_chunks holds chunks
interrupted(chunks) == None

\* KeyboardInterrupt while the stream is open, lines 347-349
Interrupt ==
    /\ pc \in {"loop", "post"}
    /\ audio' = interrupted(recorded_chunks)
    /\ printed' = Append(printed, "interrupted")
    /\ streams_open' = close_stream(streams_open)
    /\ stream_closes' = stream_closes + 1
    /\ pc' = "recorded"
    /\ ev' = Event("interrupt", RleLen(recorded_chunks), 0, 0, 0)
    /\ Returned
    /\ heard' = << >>
    /\ UNCHANGED <<gvars, mode, stt_calls, turn_return,
                   shape, speechHeard, startsInSession, sessionFrames, ovars>>

\* _record_audio('press'): record_fixed_duration(5.0) returns its buffer
RecordFixed ==
    /\ pc = "turn"
    /\ mode = "press"
    /\ \E f \in PressBuffers : audio' = Some(<<[frame |-> f, n |-> 1]>>)
    /\ pc' = "recorded"
    /\ ev' = Event("fixed", 1, 0, 0, 0)
    /\ UNCHANGED <<gvars, mode, speech_started, speech_ended, recorded_chunks,
                   chunks_recorded, audio_queue, streams_open, printed, stt_calls,
                   turn_return, runFrame, runLeft, runsUsed, idleFrames,
                   heard, shape, speechHeard, startsInSession,
                   tvars, stream_closes, sessionFrames, ovars>>

\* process_turn without the check of line 138
no_audio_unchecked(a) == FALSE

\* audio is None or len(audio) == 0, line 138
no_audio(a) == a.none \/ RleSamples(a.chunks) = 0

\* process_turn from line 138 on: no audio ends the turn with True, any
\* other audio goes to stt.transcribe and the rest of the turn decides
ProcessAudio ==
    /\ pc = "recorded"
    /\ IF no_audio(audio)
       THEN /\ turn_return' = "True"
            /\ UNCHANGED stt_calls
       ELSE /\ stt_calls' = Append(stt_calls, audio.chunks)
            /\ \E r \in {"True", "False"} : turn_return' = r
    /\ pc' = "turn_done"
    /\ UNCHANGED <<gvars, mode, speech_started, speech_ended, recorded_chunks,
                   chunks_recorded, audio_queue, streams_open, audio, printed,
                   runFrame, runLeft, runsUsed, ev, idleFrames,
                   heard, shape, speechHeard, startsInSession,
                   tvars, stream_closes, sessionFrames, ovars>>

\* main_loop, src/main.py lines 208-214: the next turn unless the last
\* returned False; the locals of the finished turn are gone
NextTurn ==
    /\ pc = "turn_done"
    /\ turn_return = "True"
    /\ pc' = "turn"
    /\ speech_started' = FALSE
    /\ speech_ended' = FALSE
    /\ recorded_chunks' = << >>
    /\ chunks_recorded' = 0
    /\ audio_queue' = << >>
    /\ audio' = None
    /\ printed' = << >>
    /\ stt_calls' = << >>
    /\ turn_return' = "running"
    /\ runFrame' = Frame(0, "silence", 0, 0, 0)
    /\ runLeft' = 0
    /\ runsUsed' = 0
    /\ ev' = NoEvent
    /\ idleFrames' = 0
    /\ heard' = << >>
    /\ shape' = 0
    /\ speechHeard' = 0
    /\ startsInSession' = 0
    /\ putTag' = 0
    /\ gotTag' = 0
    /\ inOrder' = TRUE
    /\ stream_closes' = 0
    /\ sessionFrames' = 0
    /\ UNCHANGED <<gvars, mode, streams_open, ovars>>

Next ==
    \/ StartVadStream
    \/ OpenFails
    \/ audio_callback
    \/ LoopFrame
    \/ LoopEmpty
    \/ PostHoc
    \/ Interrupt
    \/ RecordFixed
    \/ ProcessAudio
    \/ NextTurn

Spec == Init /\ [][Next]_vars

------------------------------------------------------------------------------
(* SessionMemory (src/src/memory/session_memory.py): any sequence of       *)
(* add_message, add_tool_result and clear calls on a memory constructed    *)
(* with any max_messages.                                                  *)

\* the detector while a specification does not use it
GateUnused ==
    /\ args = Args(AUDIO_SAMPLE_RATE, VAD_AGGRESSIVENESS,
                   default_frame_duration_ms,
                   default_padding_duration_ms,
                   default_speech_trigger_frames)
    /\ vad = Unconstructed
    /\ ret = NoReturn
    /\ lastOp = "none"
    /\ pre = Unconstructed
    /\ speechRun = 0
    /\ silenceRun = 0
    /\ startsInPeriod = 0
    /\ events = << >>

Roles == {"system", "user", "assistant"}

\* a message: its role and, for its content, the number it was added as
Message(role, id) == [role |-> role, id |-> id]

\* seq[-k:] for k >= 0: the last k items, all of them when k is 0 (-0 is 0)
\* or more than the list holds
PyLast(seq, k) ==
    IF k = 0 \/ k >= Len(seq) THEN seq
    ELSE SubSeq(seq, Len(seq) - k + 1, Len(seq))

\* _truncate_old_messages, lines 183-194
truncate_old_messages(self) ==
    IF self.max_messages = 0 THEN self
    ELSE LET has_system == self.messages # << >> /\ self.messages[1].role = "system"
         IN  IF has_system
             THEN [self EXCEPT !.messages =
                      <<self.messages[1]>> \o PyLast(self.messages, self.max_messages - 1)]
             ELSE [self EXCEPT !.messages = PyLast(self.messages, self.max_messages)]

\* add_message, lines 61-77
add_message(self, message) ==
    LET appended == [self EXCEPT !.messages = Append(self.messages, message)]
    IN  IF self.max_messages # 0 /\ Len(appended.messages) > self.max_messages
        THEN truncate_old_messages(appended)
        ELSE appended

\* add_tool_result, lines 94-102: appended, never truncated
add_tool_result(self, message) ==
    [self EXCEPT !.messages = Append(self.messages, message)]

\* clear, lines 295-298
clear(self) == [self EXCEPT !.messages = << >>]

MemInit ==
    /\ mode = "none"
    /\ pc = "memory"
    /\ SessionIdle
    /\ GateUnused
    /\ BufferIdle
    /\ SpeedIdle
    /\ ToolLoopIdle
    /\ memory \in { SessionMemory(n) : n \in 0 .. MaxMessages }
    /\ memPre = << >>
    /\ memAdded = << >>
    /\ memOp = "init"

MemAddMessage ==
    /\ Len(memAdded) < MaxAdds
    /\ \E role \in Roles :
          LET m == Message(role, Len(memAdded) + 1)
          IN  /\ memory' = add_message(memory, m)
              /\ memAdded' = Append(memAdded, m)
    /\ memPre' = memory.messages
    /\ memOp' = "add_message"
    /\ UNCHANGED <<gvars, svars, bvars, cvars, lvars>>

MemAddToolResult ==
    /\ Len(memAdded) < MaxAdds
    /\ LET m == Message("tool", Len(memAdded) + 1)
       IN  /\ memory' = add_tool_result(memory, m)
           /\ memAdded' = Append(memAdded, m)
    /\ memPre' = memory.messages
    /\ memOp' = "add_tool_result"
    /\ UNCHANGED <<gvars, svars, bvars, cvars, lvars>>

MemClear ==
    /\ memAdded # << >>
    /\ memory' = clear(memory)
    /\ memAdded' = << >>
    /\ memPre' = memory.messages
    /\ memOp' = "clear"
    /\ UNCHANGED <<gvars, svars, bvars, cvars, lvars>>

MemNext == MemAddMessage \/ MemAddToolResult \/ MemClear

MemSpec == MemInit /\ [][MemNext]_vars

------------------------------------------------------------------------------
(* The speak_slower, speak_faster and speak_normal commands                *)
(* (src/src/assistant/command_router.py, CommandHandlers) as process_turn  *)
(* handles them: any sequence of commands.                                 *)

\* the list speeds of the handlers, fastest first
speeds == <<200, 175, 150, 125, 100, 75, 50, 25>>

\* the tts_speed a handler returns when it returns None
NoSpeed == 0

\* speeds.index(x), counted from 1; raises ValueError when x is not there
index(seq, x) ==
    IF \E i \in DOMAIN seq : seq[i] = x
    THEN CHOOSE i \in DOMAIN seq : seq[i] = x /\ \A j \in 1 .. (i - 1) : seq[j] # x
    ELSE 0

\* what a handler leaves in CommandHandlers.tts_speed and the tts_speed of
\* the tuple it returns, or the exception it raises
Handled(cls, speed, raised) == [cls |-> cls, tts_speed |-> speed, raised |-> raised]

\* handle_speak_slower, lines 321-328
handle_speak_slower(cls) ==
    LET idx == index(speeds, cls)
    IN  IF idx = 0 THEN Handled(cls, NoSpeed, "ValueError")
        ELSE IF idx = Len(speeds) THEN Handled(cls, 25, "none")
        ELSE Handled(speeds[idx + 1], speeds[idx + 1], "none")

\* handle_speak_faster, lines 333-340
handle_speak_faster(cls) ==
    LET idx == index(speeds, cls)
    IN  IF idx = 0 THEN Handled(cls, NoSpeed, "ValueError")
        ELSE IF idx = 1 THEN Handled(cls, 200, "none")
        ELSE Handled(speeds[idx - 1], speeds[idx - 1], "none")

\* handle_speak_normal, line 345
handle_speak_normal(cls) == Handled(cls, 100, "none")

\* a handler of another command, which returns None for the speed
handle_other(cls) == Handled(cls, NoSpeed, "none")

Commands == {"speak_slower", "speak_faster", "speak_normal", "clear_conversation"}

\* _handle_command, lines 376-401: the handler of the command
handle_command(c, cls) ==
    IF c = "speak_slower" THEN handle_speak_slower(cls)
    ELSE IF c = "speak_faster" THEN handle_speak_faster(cls)
    ELSE IF c = "speak_normal" THEN handle_speak_normal(cls)
    ELSE handle_other(cls)

SpeedInit ==
    /\ mode = "none"
    /\ pc = "command"
    /\ SessionIdle
    /\ GateUnused
    /\ BufferIdle
    /\ MemoryIdle
    /\ SpeedIdle
    /\ ToolLoopIdle

\* process_turn, lines 160-169, for a routed command: the handler runs and
\* a speed it returns becomes the assistant's
HandleCommand ==
    /\ handled < MaxCommands
    /\ handled' = handled + 1
    /\ \E c \in Commands :
          LET r == handle_command(c, CommandHandlers_tts_speed)
          IN  /\ command' = c
              /\ CommandHandlers_tts_speed' = r.cls
              /\ tts_speed' = IF r.raised = "none" /\ r.tts_speed # NoSpeed
                               THEN r.tts_speed ELSE tts_speed
    /\ speedPre' = tts_speed
    /\ UNCHANGED <<gvars, svars, bvars, mvars, lvars>>

SpeedNext == HandleCommand

SpeedSpec == SpeedInit /\ [][SpeedNext]_vars

------------------------------------------------------------------------------
(* OpenAIClient.execute_tool_call_loop (src/src/llm/openai_client.py), one *)
(* iteration of its while loop after the other, with any max_iterations,   *)
(* any LLM responses and any behaviour of the tool executor.               *)

\* One requested tool call as the loop can observe it: its id, whether its
\* arguments string is JSON, and what tool_executor does when called for it.
ToolCall(id, arguments, outcome) ==
    [id |-> id, arguments |-> arguments, outcome |-> outcome]

\* the lists of n tool calls an LLM response of the given iteration may
\* hold, the ids all different
ToolCalls(it, n) ==
    { [j \in 1 .. n |-> ToolCall(10 * it + j, a[j], o[j])] :
        a \in [1 .. n -> {"json", "malformed"}],
        o \in [1 .. n -> {"result", "raises"}] }

\* chat, lines 151-180: the dictionary returned; tool_calls None is << >>
ChatResponse(content, tool_calls) ==
    [raised |-> "none", role |-> "assistant", content |-> content,
     tool_calls |-> tool_calls,
     finish_reason |-> IF tool_calls = << >> THEN "stop" ELSE "tool_calls"]

\* what self.chat can do in the given iteration: raise (lines 182-184) or
\* return a response with 0 to MaxCalls tool calls
ChatOutcomes(it) ==
    {[raised |-> "Exception"]}
        \cup { ChatResponse(it, tc) : tc \in UNION { ToolCalls(it, n) : n \in 0 .. MaxCalls } }

\* lines 238-242
AssistantMessage(r) ==
    [role |-> "assistant", content |-> r.content, tool_calls |-> r.tool_calls]

\* lines 256-260 and 267-271
ToolMessage(id, content) ==
    [role |-> "tool", tool_call_id |-> id, content |-> content]

\* the for loop of lines 245-271: the messages it leaves and the exception
\* that ends it; json.loads (line 247) is outside the try of line 251
RECURSIVE run_tool_calls(_, _)
run_tool_calls(msgs, calls) ==
    IF calls = << >> THEN [messages |-> msgs, raised |-> "none"]
    ELSE LET tool_call == Head(calls)
         IN  IF tool_call.arguments = "malformed"
             THEN [messages |-> msgs, raised |-> "JSONDecodeError"]
             ELSE run_tool_calls(
                      Append(msgs, ToolMessage(tool_call.id,
                                               IF tool_call.outcome = "raises"
                                               THEN "error" ELSE "result")),
                      Tail(calls))

\* lines 277-282
fallback ==
    [raised |-> "none", role |-> "assistant", content |-> "apology",
     tool_calls |-> << >>, finish_reason |-> "max_iterations"]

ToolInit ==
    /\ mode = "none"
    /\ pc = "tool_loop"
    /\ SessionIdle
    /\ GateUnused
    /\ BufferIdle
    /\ MemoryIdle
    /\ SpeedIdle
    /\ messages = <<[role |-> "system"], [role |-> "user"]>>
    /\ max_iterations \in 0 .. MaxIterations
    /\ iteration = 0
    /\ response = NoResponse
    /\ tool_pc = "while"
    /\ loop_result = NoResult

\* one iteration of the while loop, lines 226-273
ToolLoopIteration ==
    /\ tool_pc = "while"
    /\ iteration < max_iterations
    /\ iteration' = iteration + 1
    /\ \E r \in ChatOutcomes(iteration + 1) :
          /\ response' = r
          /\ IF r.raised # "none"
             THEN /\ loop_result' = [raised |-> r.raised]
                  /\ tool_pc' = "done"
                  /\ UNCHANGED messages
             ELSE IF r.tool_calls = << >>
             THEN /\ loop_result' = r
                  /\ tool_pc' = "done"
                  /\ UNCHANGED messages
             ELSE LET t == run_tool_calls(Append(messages, AssistantMessage(r)),
                                          r.tool_calls)
                  IN  /\ messages' = t.messages
                      /\ IF t.raised # "none"
                         THEN /\ loop_result' = [raised |-> t.raised]
                              /\ tool_pc' = "done"
                         ELSE UNCHANGED <<loop_result, tool_pc>>
    /\ UNCHANGED <<gvars, svars, bvars, mvars, cvars, max_iterations>>

\* the while condition fails, lines 275-282
ToolLoopExhausted ==
    /\ tool_pc = "while"
    /\ iteration >= max_iterations
    /\ loop_result' = fallback
    /\ tool_pc' = "done"
    /\ UNCHANGED <<gvars, svars, bvars, mvars, cvars,
                   messages, max_iterations, iteration, response>>

ToolNext == ToolLoopIteration \/ ToolLoopExhausted

ToolSpec == ToolInit /\ [][ToolNext]_vars

------------------------------------------------------------------------------
(* Claims about the detector on its own (GateSpec) *)

\* C1: speech_started is returned only by a call that started IDLE and whose
\* frame completes a run of at least speech_trigger_frames (and at least one)
\* consecutive speech-classified frames; it fires at most once before the next
\* speech_ended or reset; after a silence frame processed while IDLE
\* speech_frame_count is 0.
C1_StartedOnlyAfterTriggerRun ==
    /\ ret.speech_started =>
          /\ ~pre.is_speech_active
          /\ speechRun >= 1
          /\ speechRun >= vad.speech_trigger_frames
    /\ startsInPeriod <= 1
    /\ (lastOp = "process_frame" /\ ret.raised = "none"
          /\ ~pre.is_speech_active /\ silenceRun >= 1)
        => vad.speech_frame_count = 0

C1_Witness ==
    /\ ret.speech_started
    /\ vad.speech_trigger_frames = 3
    /\ speechRun = 3
    /\ pre.speech_frame_count = 2

\* C2: speech_ended is returned only by a call that started ACTIVE and whose
\* frame completes a run of at least padding_frames (and at least one)
\* consecutive silence-classified frames; after a speech frame processed
\* while ACTIVE silence_frame_count is 0.
C2_EndedOnlyAfterPaddingRun ==
    /\ ret.speech_ended =>
          /\ pre.is_speech_active
          /\ silenceRun >= 1
          /\ silenceRun >= vad.padding_frames
    /\ (lastOp = "process_frame" /\ ret.raised = "none"
          /\ pre.is_speech_active /\ speechRun >= 1)
        => vad.silence_frame_count = 0

C2_Witness ==
    /\ ret.speech_ended
    /\ vad.padding_frames = 25
    /\ silenceRun = 25
    /\ pre.silence_frame_count = 24

\* C10: whatever state reset() is called in, it leaves the gate IDLE with both
\* counters 0 and an empty ring history, and a reset() that directly follows
\* a reset() changes nothing.
C10_ResetIdempotent ==
    /\ [](lastOp = "reset" =>
            /\ ~vad.is_speech_active
            /\ vad.speech_frame_count = 0
            /\ vad.silence_frame_count = 0
            /\ vad.ring_buffer = << >>)
    /\ [][(lastOp = "reset" /\ lastOp' = "reset") => vad' = vad]_vars

C10_Witness ==
    /\ lastOp = "reset"
    /\ pre.is_speech_active
    /\ pre.silence_frame_count > 0

\* C11: right after every process_frame call that returns speech_started,
\* the gate having been IDLE before it, silence_frame_count is 0 and the
\* ring history is empty, whatever frames and resets came before; the
\* silence count is 0 whenever the gate is IDLE.
C11_ActiveEntryClean ==
    /\ (lastOp = "process_frame" /\ ret.speech_started) =>
         /\ ~pre.is_speech_active
         /\ vad.is_speech_active
         /\ vad.silence_frame_count = 0
         /\ vad.ring_buffer = << >>
    /\ ~vad.is_speech_active => vad.silence_frame_count = 0

\* a start after a run of speech frames, with a padding of several frames
C11_Witness ==
    /\ lastOp = "process_frame"
    /\ ret.speech_started
    /\ pre.speech_frame_count >= 1
    /\ vad.padding_frames >= 2

\* the detector object the last call started from
PreObject ==
    [vad EXCEPT !.is_speech_active = pre.is_speech_active,
                !.speech_frame_count = pre.speech_frame_count,
                !.silence_frame_count = pre.silence_frame_count,
                !.ring_buffer = pre.ring_buffer]

\* C14: is_speech and process_frame raise ValueError exactly for a frame
\* whose length is not frame_size, whatever the engine would say of it: no
\* answer and no event is returned for it, and the failed process_frame call
\* leaves is_speech_active and both counters as they were.
C14_InvalidFrameLengthRaises ==
    lastOp \in {"process_frame", "is_speech"} =>
        /\ ret.len # vad.frame_size <=> ret.raised = "ValueError"
        /\ ret.raised \in {"none", "ValueError"}
        /\ ret.raised = "ValueError" =>
             /\ ~ret.value
             /\ ~ret.speech_started
             /\ ~ret.speech_ended
             /\ GateState(vad) = pre
             /\ vad = PreObject

\* a mis-sized frame the engine would call speech, given to process_frame
\* in the middle of an active period
C14_Witness ==
    /\ lastOp = "process_frame"
    /\ ret.raised = "ValueError"
    /\ ret.engine = "speech"
    /\ pre.is_speech_active
    /\ pre.silence_frame_count > 0

\* C15: an engine error on a frame of the right length is not raised by
\* is_speech or process_frame: the answer is False and the gate does what it
\* does for a silence frame (speech_frame_count 0 while IDLE, one more
\* silence frame while ACTIVE), so a failing frame never starts a period and
\* never zeroes the silence count.
C15_EngineErrorIsSilence ==
    (lastOp \in {"process_frame", "is_speech"}
        /\ ret.engine = "error" /\ ret.len = vad.frame_size) =>
        /\ ret.raised = "none"
        /\ ~ret.value
        /\ ~ret.speech_started
        /\ lastOp = "is_speech" => vad = PreObject
        /\ lastOp = "process_frame" =>
             LET r == process_frame(PreObject,
                                    Frame(vad.frame_size, "silence", 0, 0, 0))
             IN  /\ vad = r.self
                 /\ ret.speech_ended = r.speech_ended
                 /\ ~pre.is_speech_active =>
                      (~vad.is_speech_active /\ vad.speech_frame_count = 0)
                 /\ pre.is_speech_active =>
                      IF pre.silence_frame_count + 1 >= vad.padding_frames
                      THEN ret.speech_ended /\ ~vad.is_speech_active
                      ELSE /\ ~ret.speech_ended
                           /\ vad.is_speech_active
                           /\ vad.silence_frame_count = pre.silence_frame_count + 1

\* an engine error while IDLE with speech frames counted throws the count away
C15_Witness ==
    /\ lastOp = "process_frame"
    /\ ret.engine = "error"
    /\ ret.len = vad.frame_size
    /\ ~pre.is_speech_active
    /\ pre.speech_frame_count > 0
    /\ vad.speech_frame_count = 0

\* C25: in a gate with speech_trigger_frames >= 1 and padding_frames >= 1,
\* after any sequence of process_frame and reset calls, speech_frame_count
\* is at least 0 and below speech_trigger_frames, silence_frame_count is at
\* least 0 and below padding_frames, silence_frame_count is 0 while the gate
\* is IDLE and speech_frame_count is 0 while it is ACTIVE.
C25_CountersInRange ==
    (vad.speech_trigger_frames >= 1 /\ vad.padding_frames >= 1) =>
        /\ 0 <= vad.speech_frame_count
        /\ vad.speech_frame_count < vad.speech_trigger_frames
        /\ 0 <= vad.silence_frame_count
        /\ vad.silence_frame_count < vad.padding_frames
        /\ ~vad.is_speech_active => vad.silence_frame_count = 0
        /\ vad.is_speech_active => vad.speech_frame_count = 0

\* an ACTIVE gate one silence frame before the end of its second period
C25_Witness ==
    /\ lastOp = "process_frame"
    /\ vad.speech_trigger_frames >= 2
    /\ vad.padding_frames >= 2
    /\ vad.is_speech_active
    /\ vad.silence_frame_count = vad.padding_frames - 1
    /\ events = <<"ended", "started">>

\* C26: no process_frame call returns speech_started and speech_ended both;
\* between two resets the events returned alternate started, ended,
\* started, ... and the first is started; is_speech_active is true exactly
\* from a speech_started to the next speech_ended or reset.
C26_EventsAlternate ==
    /\ ~(ret.speech_started /\ ret.speech_ended)
    /\ events \in {<< >>, <<"started">>, <<"started", "ended">>,
                    <<"ended", "started">>}
    /\ vad.is_speech_active <=>
         (events # << >> /\ events[Len(events)] = "started")
    /\ lastOp = "reset" => events = << >>

\* a second period starts, with no reset since the first one ended
C26_Witness ==
    /\ lastOp = "process_frame"
    /\ ret.speech_started
    /\ events = <<"ended", "started">>
    /\ pre.speech_frame_count >= 1

------------------------------------------------------------------------------
(* Claims about process_audio_buffer (BufSpec) *)

\* the full frames of a buffer, in order
FullFrames(buffer, frame_size) ==
    [i \in 1 .. (buffer.len \div frame_size) |->
        Frame(frame_size, buffer.engine[i], 0, 0, 0)]

\* process_frame called on each frame in turn: the gate left, whether any
\* call returned speech_started, whether any returned speech_ended, and
\* how many of the frames is_speech calls speech
RECURSIVE OneByOne(_, _)
OneByOne(self, frames) ==
    IF frames = << >>
    THEN [self |-> self, started |-> FALSE, ended |-> FALSE, speech |-> 0]
    ELSE LET r == process_frame(self, Head(frames))
             rest == OneByOne(r.self, Tail(frames))
         IN  [self |-> rest.self,
              started |-> (r.speech_started \/ rest.started),
              ended |-> (r.speech_ended \/ rest.ended),
              speech |-> rest.speech
                           + (IF is_speech(self, Head(frames)).value THEN 1 ELSE 0)]

\* C22: process_audio_buffer(audio) raises nothing and leaves the gate as
\* process_frame leaves it when called, in order, on each of the
\* floor(len(audio) / frame_size) full frames of the buffer, a trailing
\* partial frame being ignored; the speech_started and speech_ended it
\* returns are the OR of the events of those calls, and the
\* speech_frame_count it returns is the number of those frames that
\* is_speech classifies as speech.
C22_BufferIsFrameByFrame ==
    lastOp = "process_audio_buffer" =>
        LET e == OneByOne(PreObject, FullFrames(buf.audio, vad.frame_size))
        IN  /\ buf.raised = "none"
            /\ vad = e.self
            /\ buf.speech_started = e.started
            /\ buf.speech_ended = e.ended
            /\ buf.speech_frame_count = e.speech

\* a buffer of two frames and a partial one, in which a period ends and the
\* next one starts
C22_Witness ==
    /\ lastOp = "process_audio_buffer"
    /\ buf.audio.len = 3 * vad.frame_size - 1
    /\ pre.is_speech_active
    /\ buf.speech_ended
    /\ buf.speech_started
    /\ buf.speech_frame_count = 1
    /\ vad.is_speech_active

------------------------------------------------------------------------------
(* Claims about SessionMemory (MemSpec) *)

NonSystem(seq) == SelectSeq(seq, LAMBDA m : m.role # "system")

\* C24: in a SessionMemory constructed with max_messages = N >= 1, after
\* every add_message at most N messages are retained, a system message that
\* was first is still first, and the retained messages that are not system
\* messages are the most recent ones added, in the order they were added.
C24_TruncationKeepsBound ==
    (memory.max_messages >= 1 /\ memOp = "add_message") =>
        /\ Len(memory.messages) <= memory.max_messages
        /\ (memPre # << >> /\ memPre[1].role = "system") =>
              memory.messages[1] = memPre[1]
        /\ LET kept == NonSystem(memory.messages)
               all == NonSystem(memAdded)
           IN  /\ Len(kept) <= Len(all)
               /\ kept = SubSeq(all, Len(all) - Len(kept) + 1, Len(all))

------------------------------------------------------------------------------
(* Claims about the speak_* commands (SpeedSpec) *)

SpeedSet == {25, 50, 75, 100, 125, 150, 175, 200}

\* C30: after any sequence of speak_slower, speak_faster and speak_normal
\* commands the assistant's tts_speed equals CommandHandlers.tts_speed, both
\* are among 0.25, 0.5, ..., 2.0, and a speak_faster given below 2.0 (a
\* speak_slower given above 0.25) leaves the assistant's speed exactly one
\* step of 0.25 above (below) what it was.
C30_SpeedInStep ==
    /\ tts_speed = CommandHandlers_tts_speed
    /\ tts_speed \in SpeedSet
    /\ CommandHandlers_tts_speed \in SpeedSet
    /\ (command = "speak_faster" /\ speedPre < 200) => tts_speed = speedPre + 25
    /\ (command = "speak_slower" /\ speedPre > 25) => tts_speed = speedPre - 25

------------------------------------------------------------------------------
(* Claims about execute_tool_call_loop (ToolSpec) *)

\* the tool calls requested by the assistant messages of a list, in order
RECURSIVE Requested(_)
Requested(msgs) ==
    IF msgs = << >> THEN << >>
    ELSE (IF Head(msgs).role = "assistant"
          THEN [j \in DOMAIN Head(msgs).tool_calls |-> Head(msgs).tool_calls[j].id]
          ELSE << >>) \o Requested(Tail(msgs))

\* the ids the tool messages of a list carry, in order
RECURSIVE Answered(_)
Answered(msgs) ==
    IF msgs = << >> THEN << >>
    ELSE (IF Head(msgs).role = "tool" THEN <<Head(msgs).tool_call_id>> ELSE << >>)
             \o Answered(Tail(msgs))

\* C23: when every LLM call gives a response, execute_tool_call_loop
\* returns, after at most max_iterations LLM calls: the first response
\* without tool calls as it is, or, every response having requested tools,
\* the fallback response with finish_reason "max_iterations"; and then the
\* list holds, right after each assistant message, exactly one tool message
\* for each tool call it requested, in order and with that call's id, also
\* for the calls the tool executor raised on.
C23_ToolLoopReturns ==
    /\ iteration <= max_iterations
    /\ (tool_pc = "done" /\ response.raised \in {"none", "not called"}) =>
         /\ loop_result.raised = "none"
         /\ (iteration >= 1 /\ response.tool_calls = << >>) =>
               loop_result = response
         /\ (iteration = 0 \/ response.tool_calls # << >>) =>
               /\ loop_result = fallback
               /\ iteration = max_iterations
         /\ Answered(messages) = Requested(messages)
         /\ \A p \in DOMAIN messages :
               messages[p].role = "assistant" =>
                   \A j \in DOMAIN messages[p].tool_calls :
                       /\ p + j <= Len(messages)
                       /\ messages[p + j].role = "tool"
                       /\ messages[p + j].tool_call_id = messages[p].tool_calls[j].id

------------------------------------------------------------------------------
(* Claims about the constructor (CtorSpec) *)

\* C12: the constructor call succeeds only with sample_rate among 8000,
\* 16000, 32000, 48000, frame_duration_ms among 10, 20, 30 and
\* aggressiveness among 0, 1, 2, 3, and then leaves an IDLE detector holding
\* its arguments; with any other value of any of the three it raises
\* ValueError and leaves no object.
C12_ConstructorValidates ==
    lastOp = "init" =>
        LET legal == /\ args.sample_rate \in {8000, 16000, 32000, 48000}
                     /\ args.frame_duration_ms \in {10, 20, 30}
                     /\ args.aggressiveness \in {0, 1, 2, 3}
        IN  /\ legal <=> vad.raised = "none"
            /\ ~legal => (vad.raised = "ValueError" /\ DOMAIN vad = {"raised"})
            /\ legal =>
                 /\ vad.sample_rate = args.sample_rate
                 /\ vad.frame_duration_ms = args.frame_duration_ms
                 /\ vad.aggressiveness = args.aggressiveness
                 /\ ~vad.is_speech_active
                 /\ vad.speech_frame_count = 0
                 /\ vad.silence_frame_count = 0

\* a call that fails on the aggressiveness alone
C12_Witness ==
    /\ lastOp = "init"
    /\ args.sample_rate = 16000
    /\ args.frame_duration_ms = 30
    /\ args.aggressiveness = 4
    /\ vad.raised = "ValueError"

\* C13: every parameter is validated at construction: no constructor call
\* with speech_trigger_frames < 1, or with a padding_duration_ms that gives
\* padding_frames < 1, leaves a detector.
C13_AllParametersValidated ==
    ~ /\ lastOp = "init"
      /\ vad.raised = "none"
      /\ \/ vad.speech_trigger_frames < 1
         \/ vad.padding_frames < 1

\* C16: for every legal frame_duration_ms and every non-negative
\* padding_duration_ms, padding_frames is an integer nearest to
\* padding_duration_ms / frame_duration_ms, and on an exact half it is the
\* even one of the two (50/20 gives 2); with the defaults (750, 30) it is
\* 25, the number of trailing frames the energy check leaves out.
C16_PaddingFramesNearestEven ==
    (lastOp = "init" /\ vad.raised = "none") =>
        LET pd == args.padding_duration_ms
            fd == args.frame_duration_ms
            pf == vad.padding_frames
            twice == 2 * (pf * fd - pd)
            dist == IF twice < 0 THEN -twice ELSE twice
        IN  /\ dist <= fd
            /\ dist = fd => pf % 2 = 0
            /\ (pd = default_padding_duration_ms /\ fd = default_frame_duration_ms)
                 => (pf = 25 /\ pf = energy_tail)

\* the exact half 50/20
C16_Witness ==
    /\ lastOp = "init"
    /\ vad.raised = "none"
    /\ args.padding_duration_ms = 50
    /\ args.frame_duration_ms = 20
    /\ vad.padding_frames = 2

\* C16 as stated, rounding to the nearest integer with the usual rule for an
\* exact half (up): padding_frames = floor(padding_duration_ms /
\* frame_duration_ms + 1/2)
C16_RoundHalfUp ==
    (lastOp = "init" /\ vad.raised = "none") =>
        vad.padding_frames =
            (2 * args.padding_duration_ms + args.frame_duration_ms)
                \div (2 * args.frame_duration_ms)

------------------------------------------------------------------------------
(* Claims about the streaming capture session and the turn (Spec) *)

Occurrences(seq, x) == Cardinality({i \in DOMAIN seq : seq[i] = x})

AfterPolicy == ev.kind \in {"returned_after_ended", "returned_after_max"}

\* C3: when speech_ended fires and the mean square of the accumulated frames
\* without the last padding_frames frames is below 0.001, the segment is not
\* returned: the accumulator is emptied, the gate is IDLE with zero counters
\* and the same session, its stream still open, keeps listening; a segment
\* the loop ends with on speech_ended never has such a low mean square.
C3_LowEnergyRejected ==
    /\ ev.kind = "rejected" =>
         /\ ev.winlen > 0
         /\ ev.winsum < low_energy_threshold * ev.winlen
         /\ pc = "loop"
         /\ streams_open = 1
         /\ audio = None
         /\ stt_calls = << >>
         /\ recorded_chunks = << >>
         /\ chunks_recorded = 0
         /\ ~speech_started
         /\ ~speech_ended
         /\ ~vad.is_speech_active
         /\ vad.speech_frame_count = 0
         /\ vad.silence_frame_count = 0
         /\ vad.ring_buffer = << >>
    /\ ev.kind = "ended" =>
         ~(ev.winlen > 0 /\ ev.winsum < low_energy_threshold * ev.winlen)
    /\ (ev.kind = "returned_after_ended" /\ ~audio.none) =>
         LET win == RleDropLast(audio.chunks, vad.padding_frames)
         IN  RleSumMs(win) >= low_energy_threshold * RleLen(win)

\* a quiet segment was rejected and the session is listening again
C3_Witness ==
    /\ ev.kind = "rejected"
    /\ ev.seglen > vad.padding_frames
    /\ pc = "loop"
    /\ audio_queue # << >>

\* C4: in a session where speech_started never fires the loop ends once the
\* silence got reaches no_speech_timeout (10 s, IdleCap frames of 30 ms):
\* the loop is never still running with that many frames got and no start.
C4_NoSpeechTimeout ==
    ~(pc = "loop" /\ startsInSession = 0 /\ ~speech_started /\ idleFrames >= IdleCap)

\* C5: with the gate active and no speech_ended, the session stops when the
\* accumulated frames reach max_recording_duration (1000 frames of 30 ms);
\* what the post-hoc policy gets is every frame accumulated, never more than
\* 1000, the gate is left as it was, and the warning is printed exactly once.
C5_MaxDurationTruncates ==
    /\ chunks_recorded = RleLen(recorded_chunks)
    /\ chunks_recorded <= max_chunks
    /\ pc = "loop" => chunks_recorded < max_chunks
    /\ (pc = "post" /\ ~speech_ended) =>
         /\ speech_started
         /\ vad.is_speech_active
         /\ recorded_chunks = heard
         /\ chunks_recorded = max_chunks
    /\ ev.kind = "returned_after_max" =>
         /\ ev.seglen = max_chunks
         /\ ev.seglen * frame_duration = max_recording_duration * 1000
         /\ RleLen(heard) = max_chunks
         /\ vad.is_speech_active
         /\ audio \in {None, Some(heard)}
         /\ RleMax(heard) >= min_peak => audio = Some(heard)
         /\ Occurrences(printed, "max_duration") = 1
         /\ pc \in {"recorded", "turn_done"}

\* 1000 frames were accumulated without speech_ended and returned
C5_Witness ==
    /\ ev.kind = "returned_after_max"
    /\ ~audio.none
    /\ RleLen(audio.chunks) = max_chunks

\* C6: for every terminal segment the policy gives None when it is shorter
\* than 0.3 s, else None when its peak absolute amplitude is below 0.08, and
\* else the concatenation of the accumulated frames.
C6_PostHocPolicy ==
    AfterPolicy =>
        audio = IF RleSamples(heard) * 1000 < AUDIO_SAMPLE_RATE * min_segment_ms
                THEN None
                ELSE IF RleAbsMax(heard) < min_peak THEN None
                ELSE Some(heard)

\* C7: while frames are accumulated the segment is the frames got from the one
\* speech_started fired on, and at speech_ended it holds that frame too;
\* after silence, S >= speech_trigger_frames speech frames and silence
\* again, with S - (speech_trigger_frames - 1) + padding_frames no more than
\* max_chunks, speech_started has fired once and the completed segment has
\* S - (speech_trigger_frames - 1) + padding_frames frames.
C7_SegmentFromStartThroughEnd ==
    /\ speech_started => (recorded_chunks = heard /\ heard # << >>)
    /\ ev.kind \in {"started", "ended", "rejected"} =>
         (ev.seglen = ev.heardlen /\ ev.seglen > 0)
    /\ ev.kind = "started" => ev.seglen = 1
    /\ ( /\ ev.kind \in {"ended", "rejected"} \/ pc = "post"
         /\ shape = 2
         /\ speechHeard >= vad.speech_trigger_frames
         /\ speechHeard - (vad.speech_trigger_frames - 1) + vad.padding_frames
              <= max_chunks )
       => /\ startsInSession = 1
          /\ ev.seglen = speechHeard - (vad.speech_trigger_frames - 1)
                           + vad.padding_frames

\* silence, 977 speech frames, silence: the segment completes with 1000 frames
C7_Witness ==
    /\ ev.kind = "ended"
    /\ shape = 2
    /\ speechHeard = 977
    /\ startsInSession = 1
    /\ ev.seglen = max_chunks

\* C7 as stated, for every S >= speech_trigger_frames
C7_AnySpeechRun ==
    ( /\ ev.kind \in {"ended", "rejected"} \/ pc = "post"
      /\ shape = 2
      /\ speechHeard >= vad.speech_trigger_frames )
    => /\ startsInSession = 1
       /\ ev.seglen = speechHeard - (vad.speech_trigger_frames - 1)
                        + vad.padding_frames

\* C8: an interrupt at any point of a capture session ends the loop, closes
\* the input stream and makes the session return None; the frames accumulated
\* are not returned, and nothing is transcribed.
C8_InterruptReturnsNone ==
    ev.kind = "interrupt" =>
        /\ audio = None
        /\ streams_open = 0
        /\ pc \in {"recorded", "turn_done"}
        /\ recorded_chunks = << >>
        /\ stt_calls = << >>
        /\ pc = "turn_done" => turn_return = "True"

\* the interrupt came while frames were being accumulated
C8_Witness ==
    /\ ev.kind = "interrupt"
    /\ ev.seglen > 0
    /\ pc = "turn_done"

\* C9: when the capture step yields None or an empty buffer the turn ends
\* with True and stt.transcribe is not called; it is called at most once a
\* turn, with the non-empty waveform the capture step returned, which in
\* 'vad' mode is a segment the post-hoc policy accepted.
C9_NoSegmentNoTranscription ==
    /\ Len(stt_calls) <= 1
    /\ stt_calls # << >> =>
         /\ pc = "turn_done"
         /\ ~audio.none
         /\ RleSamples(audio.chunks) > 0
         /\ stt_calls = <<audio.chunks>>
         /\ mode = "vad" =>
              /\ AfterPolicy
              /\ audio.chunks = heard
              /\ RleSamples(heard) * 1000 >= AUDIO_SAMPLE_RATE * min_segment_ms
    /\ (pc = "turn_done" /\ (audio.none \/ RleSamples(audio.chunks) = 0)) =>
         /\ stt_calls = << >>
         /\ turn_return = "True"

\* a segment the post-hoc policy turned down ended the turn with True
C9_Witness ==
    /\ pc = "turn_done"
    /\ AfterPolicy
    /\ ev.seglen > 0
    /\ audio.none
    /\ stt_calls = << >>
    /\ turn_return = "True"

\* C17: producer and consumer interleaved in any way, every block the loop
\* gets is the one produced next after the block it got before (the blocks
\* waiting are the ones produced since, oldest first), and the segment being
\* accumulated is those blocks from the start frame on: none dropped,
\* duplicated or moved between its first and its last frame.
C17_FramesInProductionOrder ==
    /\ inOrder
    /\ \A i \in 1 .. Len(audio_queue) :
          audio_queue[i].tag = (gotTag + i - 1) % TagMod
    /\ putTag = (gotTag + Len(audio_queue)) % TagMod
    /\ speech_started => recorded_chunks = heard

\* the consumer two blocks behind the producer in the middle of a segment
C17_Witness ==
    /\ pc = "loop"
    /\ speech_started
    /\ RleLen(recorded_chunks) >= 2
    /\ Len(audio_queue) = 2
    /\ audio_queue[1].frame # audio_queue[2].frame

\* C18: the queue is bounded: however slow the consumer, the number of
\* blocks waiting in it never exceeds a fixed capacity.  The code gives the
\* queue no capacity; the capacity put to the test is MaxQueue - 1, just
\* below the number of waiting blocks up to which the producer is followed.
C18_QueueBounded ==
    Len(audio_queue) < MaxQueue

\* C19: at most one input stream is open at any time, and only during a
\* capture session; it is closed when the session completes (segment
\* accepted, turned down by the post-hoc policy, or truncated), when the loop
\* starts again after a low-energy rejection, and on cancellation or error.
C19_StreamClosedOnRestart ==
    /\ streams_open \in {0, 1}
    /\ streams_open = 1 <=> pc \in {"loop", "post"}
    /\ ev.kind \in {"returned_after_ended", "returned_after_max", "interrupt",
                    "error", "open_failed"} => streams_open = 0
    /\ ev.kind = "rejected" => stream_closes >= 1

Warnings == {"no_speech", "max_duration", "too_short", "no_audio"}

\* C20: the expected outcomes are return values, never exceptions, and only
\* max-duration truncation prints a warning: a segment that speech_ended
\* completed and the post-hoc policy turns down (too short, too quiet) is
\* returned as None with no warning printed, and a truncated one prints the
\* max-duration warning.
C20_OnlyTruncationIsVisible ==
    AfterPolicy =>
        /\ pc \in {"recorded", "turn_done"}
        /\ "error" \notin {printed[i] : i \in DOMAIN printed}
        /\ ev.kind = "returned_after_max" =>
             Occurrences(printed, "max_duration") = 1
        /\ (ev.kind = "returned_after_ended" /\ audio.none) =>
             {printed[i] : i \in DOMAIN printed} \cap Warnings = {}

\* C21: the max_recording_duration budget spans the restarts after low-energy
\* rejections: the frames accumulated over all iterations of one capture
\* session never exceed max_chunks (1000 frames of 30 ms), a rejection not
\* giving the budget back.
C21_BudgetSpansRestarts ==
    sessionFrames <= max_chunks

\* C27: whenever speech_ended fires in a capture session, the segment being
\* rejected or not, recorded_chunks holds at least padding_frames + 1 frames,
\* so that recorded_chunks[:-25] is never empty; every segment the post-hoc
\* policy gets has at least 26 frames (0.78 s), and the "too short" branch
\* (less than 0.3 s) is never taken.
C27_EndedSegmentHasWindow ==
    /\ ev.kind \in {"ended", "rejected"} =>
         /\ ev.seglen >= vad.padding_frames + 1
         /\ ev.winlen = ev.seglen - energy_tail
         /\ ev.winlen >= 1
    /\ speech_ended =>
         /\ RleLen(recorded_chunks) >= vad.padding_frames + 1
         /\ RleDropLast(recorded_chunks, energy_tail) # << >>
    /\ pc = "post" =>
         /\ RleLen(recorded_chunks) >= 26
         /\ RleSamples(recorded_chunks) * 1000 >= AUDIO_SAMPLE_RATE * 780
    /\ AfterPolicy =>
         /\ ev.seglen >= 26
         /\ ev.seglen * frame_duration >= 780
    /\ Occurrences(printed, "too_short") = 0

\* the shortest segment: the start frame and the 25 silence frames after it
C27_Witness ==
    /\ ev.kind = "ended"
    /\ ev.seglen = vad.padding_frames + 1
    /\ ev.winlen = 1
    /\ pc = "post"

\* C28: every capture session begins with the gate IDLE, both counters 0,
\* an empty ring history and empty locals (no frame accumulated, no event
\* seen), however the session before it on the same detector ended: also
\* after a truncation, an interrupt or an error that left the gate ACTIVE
\* with a silence count above 0.
C28_SessionStartsIdle ==
    ev.kind \in {"opened", "open_failed"} =>
        /\ lastOp = "reset"
        /\ ~vad.is_speech_active
        /\ vad.speech_frame_count = 0
        /\ vad.silence_frame_count = 0
        /\ vad.ring_buffer = << >>
        /\ ~speech_started
        /\ ~speech_ended
        /\ recorded_chunks = << >>
        /\ chunks_recorded = 0

\* a session starts on a detector the last session left ACTIVE in the
\* middle of the closing silence
C28_Witness ==
    /\ ev.kind = "opened"
    /\ pre.is_speech_active
    /\ pre.silence_frame_count > 0
    /\ ~vad.is_speech_active

\* C29: the max-duration warning is printed only by a session that ends by
\* truncation: a session whose loop ends on speech_ended with a segment that
\* passed the energy check never prints it, also when speech_ended fires on
\* the frame that brings chunks_recorded to max_chunks.
C29_WarningOnlyOnTruncation ==
    ev.kind = "returned_after_ended" =>
        Occurrences(printed, "max_duration") = 0

=============================================================================
